---- MODULE Spec2Model ----
(***************************************************************************)
(* FlowHTTP (datanadhi/flowhttp): the router's registration API (Fork,     *)
(* ClearSteps, Stream), route resolution (convertPathToRegex,              *)
(* getStreamMethodsForPath), dispatch (Flow.ServeHTTP, the Step chain) and *)
(* the request context (FlowContext: Set, Get, Delete, Param), and the    *)
(* client package's Response (getDataCopy, Json, String, Bytes).           *)
(*                                                                         *)
(* Go values are modelled as the runtime holds them:                       *)
(*  - a []Step is a slice header (arr, len, cap) over a backing array kept *)
(*    in `arrays`; append writes in place when the capacity allows it and  *)
(*    allocates a fresh array otherwise;                                   *)
(*  - a *streamMethods is an index into `methods`, so that two holders of  *)
(*    the same pointer see each other's writes;                            *)
(*  - a path is a sequence of one-character strings.                       *)
(* Step and Sink values are opaque to the router (it only stores and calls *)
(* them), so every call passes fresh ones, named by the call that passed   *)
(* them: <<"f", b, i>> is the i-th Step given to the Fork that made branch *)
(* b, <<"s", k, i>> the i-th Step given to the k-th Stream call, and k     *)
(* itself names the Sink of the k-th Stream call.                          *)
(***************************************************************************)
EXTENDS Integers, Sequences, FiniteSets, TLC

VARIABLES
    arrays,          \* the backing arrays of the []Step slices, by allocation
    branches,        \* the Branch objects; branches[1] is the Flow's own Branch
    methods,         \* the streamMethods objects (targets of *streamMethods)
    streams,         \* Flow.streams: static path -> index into methods
    dynamicStreams,  \* Flow.dynamicStreams, in registration order
    forks,           \* history: one record per Branch (not program state)
    calls,           \* history: one record per Stream call (not program state)
    reqs,            \* the dispatches (ServeHTTP calls) started so far
    response,        \* the client's *Response (client.Response)
    wire,            \* the body of the http.Response it was built around
    returned         \* history: one record per Json, String or Bytes call

vars == <<arrays, branches, methods, streams, dynamicStreams, forks, calls, reqs,
          response, wire, returned>>

\* the variables of the client package; the router never touches them
clientVars == <<response, wire, returned>>

\* the variables of the router; the client package never touches them
flowVars == <<arrays, branches, methods, streams, dynamicStreams, forks, calls, reqs>>

----------------------------------------------------------------------------
(* Bounds and input sets of the model *)

MaxOps == 4          \* Fork and Stream calls together, in SpecBranch
MaxServeOps == 2     \* Fork and Stream calls together, in Spec
MaxForkSteps == 2    \* length of the steps argument of Fork
MaxStreamSteps == 1  \* length of the steps argument of Stream
MaxClears == 1       \* branches ClearSteps is called on
MaxReqs == 1         \* ServeHTTP calls
MaxRouteOps == 3     \* Fork and Stream calls together, in SpecRoute
MaxOverwriteOps == 5 \* Fork and Stream calls together, in SpecOverwrite
MaxCtxReqs == 2      \* ServeHTTP calls, in SpecContext
MaxCtxOps == 3       \* Set, Get and Delete calls together, in SpecContext
MaxBodyLen == 2      \* bytes of a response body, in SpecResponse
MaxCalls == 3        \* Json, String and Bytes calls together, in SpecResponse

\* Fork prefixes, Stream path fragments and request paths the model draws from.
ForkPaths == { <<"/">>, <<"/", "a">> }
StreamPaths == { <<"/", "p">>, <<"/", ":", "i">> }
RequestPaths == { <<"/", "p">>, <<"/", "4">>, <<"/", "a", "/", "p">>, <<"/", "a", "/", "4">> }
Methods == { "GET", "POST", "DELETE" }

\* The same for the specification of route resolution (SpecRoute): a prefix
\* with a parameter, the empty path fragment, a wildcard, and request paths
\* with an empty segment, a further segment, a doubled "/" and a "\n"
\* (GET /a/%0A).
RouteForkPaths == { <<"/">>, <<"/", "a">>, <<"/", ":", "i">> }
RouteStreamPaths ==
    { <<>>, <<"/", "p">>, <<"/", ":", "i">>, <<"/", "*">>,
      <<"/", ":", "i", "/", ":", "p">> }
RouteRequestPaths ==
    { <<"/", "p">>, <<"/", "4">>, <<"/", ":", "i">>,
      <<"/", "a", "/", "p">>, <<"/", "a", "/", "4">>, <<"/", "a", "/">>,
      <<"/", "a", "/", "4", "/", "2">>, <<"/", "a", "/", "\n">>,
      <<"/", "/", "a", "/", "p">> }
RouteMethods == { "GET", "POST" }

\* the keys Steps and handlers use in the request context (SpecContext)
CtxKeys == { "k", "j" }

\* strings.Contains(path, c) for a one-character c
Contains(path, c) == \E i \in 1..Len(path) : path[i] = c

\* the characters of [a-zA-Z0-9_] that occur in the model's paths
NameChars == { "a", "p", "i", "4", "2", "_" }

----------------------------------------------------------------------------
(* Go slices of Step *)

NilStep == <<>>                               \* the zero value of a slot
NilSlice == [arr |-> <<>>, len |-> 0, cap |-> 0]  \* a nil []Step

\* the elements a slice header denotes
Contents(arrs, s) == [i \in 1..s.len |-> arrs[s.arr][i]]

\* runtime.roundupsize for 8-byte elements: the malloc size classes are
\* 8, 16, 24, 32, 48, 64, 80, 96, 112, 128 bytes
RoundUpCap(c) == IF c <= 4 THEN c ELSE c + (c % 2)

\* runtime.growslice: the capacity of the array append allocates
GrowCap(oldCap, newLen) ==
    RoundUpCap(IF newLen > 2 * oldCap THEN newLen ELSE 2 * oldCap)

\* append's slow path: a fresh array, named id, of capacity GrowCap holding
\* the old elements followed by vals
GrowSlice(arrs, s, vals, id) ==
    LET n == s.len + Len(vals)
        c == GrowCap(s.cap, n)
        old == Contents(arrs, s)
        new == [i \in 1..c |->
                   IF i <= s.len THEN old[i]
                   ELSE IF i <= n THEN vals[i - s.len]
                   ELSE NilStep]
    IN  [slice |-> [arr |-> id, len |-> n, cap |-> c],
         arrays |-> [a \in DOMAIN arrs \cup {id} |-> IF a = id THEN new ELSE arrs[a]]]

\* append(s, vals...): the new slice header and the heap after the call; id
\* names the array the call allocates, if it allocates one (an array is named
\* by the call that allocates it: <<"f", b>> by the Fork that makes branch b,
\* <<"s", k>> by the k-th Stream call)
AppendSteps(arrs, s, vals, id) ==
    LET n == s.len + Len(vals)
    IN  IF Len(vals) = 0 THEN [slice |-> s, arrays |-> arrs]
        ELSE IF n <= s.cap
        THEN [slice |-> [arr |-> s.arr, len |-> n, cap |-> s.cap],
              arrays |-> [arrs EXCEPT ![s.arr] =
                            [i \in 1..s.cap |->
                                IF i > s.len /\ i <= n THEN vals[i - s.len]
                                ELSE @[i]]]]
        ELSE GrowSlice(arrs, s, vals, id)

----------------------------------------------------------------------------
(* Pattern compiler: convertPathToRegex *)

RECURSIVE NameEnd(_, _)
\* the last index of the run of [a-zA-Z0-9_] characters that starts at i
NameEnd(path, i) ==
    IF i < Len(path) /\ path[i + 1] \in NameChars THEN NameEnd(path, i + 1) ELSE i

RECURSIVE Tokens(_, _)
\* the regular expression built from path[i..], as a sequence of tokens:
\*   param: (?P<name>[^/]+)   from :name
\*   star:  .*                from *
\*   dot:   .                 a literal "." is left unescaped
\* (the flags of regexp.MustCompile: "." matches any character but "\n", a
\* negated class matches "\n", "$" matches at the end of the text only)
\*   lit:   the character itself
Tokens(path, i) ==
    IF i > Len(path) THEN <<>>
    ELSE IF path[i] = ":" /\ i < Len(path) /\ path[i + 1] \in NameChars
    THEN LET e == NameEnd(path, i + 1)
         IN  <<[t |-> "param", name |-> SubSeq(path, i + 1, e)]>> \o Tokens(path, e + 1)
    ELSE IF path[i] = "*" THEN <<[t |-> "star", name |-> <<>>]>> \o Tokens(path, i + 1)
    ELSE IF path[i] = "." THEN <<[t |-> "dot", name |-> <<>>]>> \o Tokens(path, i + 1)
    ELSE <<[t |-> "lit", name |-> <<path[i]>>]>> \o Tokens(path, i + 1)

\* convertPathToRegex: the anchored pattern and whether it has named params
convertPathToRegex(path) ==
    LET toks == Tokens(path, 1)
    IN  [pattern |-> toks,
         hasParams |-> \E i \in 1..Len(toks) : toks[i].t = "param"]

\* a wrong parameter group: (?P<name>.+), which runs over "/"
SegRunAny(path, i) == Len(path) - i + 1

RECURSIVE SegRun(_, _)
\* the length of the longest run of non-"/" characters starting at path[i]
SegRun(path, i) ==
    IF i > Len(path) \/ path[i] = "/" THEN 0 ELSE 1 + SegRun(path, i + 1)

RECURSIVE DotRun(_, _)
\* the length of the longest run of non-"\n" characters starting at path[i]
DotRun(path, i) ==
    IF i > Len(path) \/ path[i] = "\n" THEN 0 ELSE 1 + DotRun(path, i + 1)

NoMatch == [ok |-> FALSE, caps |-> <<>>]

RECURSIVE MatchAt(_, _, _, _)
RECURSIVE TryLen(_, _, _, _, _, _)
\* regexp matching of toks[ti..] against path[pi..], anchored at the end ($);
\* caps lists the named submatches, in group order
MatchAt(toks, ti, path, pi) ==
    IF ti > Len(toks) THEN [ok |-> pi > Len(path), caps |-> <<>>]
    ELSE LET tok == toks[ti] IN
         CASE tok.t = "lit" ->
                IF pi <= Len(path) /\ path[pi] = tok.name[1]
                THEN MatchAt(toks, ti + 1, path, pi + 1) ELSE NoMatch
           [] tok.t = "dot" ->
                IF pi <= Len(path) /\ path[pi] # "\n"
                THEN MatchAt(toks, ti + 1, path, pi + 1) ELSE NoMatch
           [] tok.t = "param" -> TryLen(toks, ti, path, pi, SegRun(path, pi), 1)
           [] tok.t = "star" -> TryLen(toks, ti, path, pi, DotRun(path, pi), 0)

\* a greedy repetition: the longest length k >= min whose rest matches
TryLen(toks, ti, path, pi, k, min) ==
    IF k < min THEN NoMatch
    ELSE LET r == MatchAt(toks, ti + 1, path, pi + k) IN
         IF r.ok
         THEN IF toks[ti].t = "param"
              THEN [ok |-> TRUE,
                    caps |-> <<<<toks[ti].name, SubSeq(path, pi, pi + k - 1)>>>> \o r.caps]
              ELSE r
         ELSE TryLen(toks, ti, path, pi, k - 1, min)

\* pattern.MatchString(path) and pattern.FindStringSubmatch(path)
Match(pattern, path) == MatchAt(pattern, 1, path, 1)

----------------------------------------------------------------------------
(* Route table *)

NoStream == [steps |-> NilSlice, sink |-> 0]   \* a nil *stream
NewMethods == [GET |-> NoStream, POST |-> NoStream]  \* &streamMethods{}

NilParams == [isNil |-> TRUE, kv |-> <<>>]      \* a nil map[string]string

\* the map filled by the loop over SubexpNames: a later group of the same
\* name overwrites an earlier one
ParamsOf(caps) ==
    LET names == { caps[i][1] : i \in 1..Len(caps) }
        last(n) == CHOOSE i \in 1..Len(caps) :
                      /\ caps[i][1] = n
                      /\ \A j \in 1..Len(caps) : caps[j][1] = n => j <= i
    IN  [isNil |-> FALSE, kv |-> [n \in names |-> caps[last(n)][2]]]

\* FlowContext.Param: the named parameter, "" when missing
Param(params, name) ==
    IF (~params.isNil) /\ name \in DOMAIN params.kv THEN params.kv[name] ELSE <<>>

\* the result of the loop body for a pattern that matches
DynamicResult(d, r) ==
    [found |-> TRUE, mid |-> d.methods,
     params |-> IF d.hasPathParams THEN ParamsOf(r.caps)
                ELSE [isNil |-> FALSE, kv |-> <<>>]]

RECURSIVE ScanDynamicLast(_, _, _)
\* a wrong loop: the last pattern that matches wins
ScanDynamicLast(dyn, i, path) ==
    IF i > Len(dyn) THEN [found |-> FALSE, mid |-> 0, params |-> NilParams]
    ELSE LET rest == ScanDynamicLast(dyn, i + 1, path)
             r == Match(dyn[i].pattern, path)
         IN  IF rest.found THEN rest
             ELSE IF r.ok THEN DynamicResult(dyn[i], r)
             ELSE rest

RECURSIVE ScanDynamic(_, _, _)
\* the loop over f.dynamicStreams: the first pattern that matches wins
ScanDynamic(dyn, i, path) ==
    IF i > Len(dyn) THEN [found |-> FALSE, mid |-> 0, params |-> NilParams]
    ELSE LET r == Match(dyn[i].pattern, path) IN
         IF r.ok
         THEN DynamicResult(dyn[i], r)
         ELSE ScanDynamic(dyn, i + 1, path)

\* a wrong resolution: the dynamic list is scanned first, the static map is
\* the fallback
getStreamMethodsForPathDynamicFirst(path) ==
    LET d == ScanDynamic(dynamicStreams, 1, path) IN
    IF d.found THEN d
    ELSE IF path \in DOMAIN streams
    THEN [found |-> TRUE, mid |-> streams[path], params |-> NilParams]
    ELSE d

\* getStreamMethodsForPath: static fast path, then the dynamic fallback;
\* found = FALSE is the error return
getStreamMethodsForPath(path) ==
    IF path \in DOMAIN streams
    THEN [found |-> TRUE, mid |-> streams[path], params |-> NilParams]
    ELSE ScanDynamic(dynamicStreams, 1, path)

----------------------------------------------------------------------------
(* Registration: NewFlow, Fork, ClearSteps, Stream *)

\* the Steps passed to the Fork that makes branch nb / to the k-th Stream call
ForkStepArgs(nb, n) == [i \in 1..n |-> <<"f", nb, i>>]
StreamStepArgs(k, n) == [i \in 1..n |-> <<"s", k, i>>]

\* the middleware list a slice header denotes in the current heap
StepsOf(s) == Contents(arrays, s)

\* a []byte: nil, or a slice of bytes (an empty one is not nil)
NilBytes == [nil |-> TRUE, bytes |-> <<>>]
NonNil(b) == [nil |-> FALSE, bytes |-> b]

\* an io.ReadCloser: the bytes it delivers, how many it has delivered, whether
\* its next read fails (after `cut` bytes), whether it is closed, and how
\* often it was read to the end or to an error (reads) and closed (closes)
Reader(data, fail, cut) ==
    [data |-> data, pos |-> 0, fail |-> fail, cut |-> cut, closed |-> FALSE,
     reads |-> 0, closes |-> 0]
NoReader == Reader(<<>>, FALSE, 0)

\* a nil *Response, and the Response built around an http.Response with the
\* given Body ("nil": no body; "wire": the body received; "copy": the
\* reader getDataCopy puts in its place, kept in `rebuilt`)
NilResponse == [nil |-> TRUE, Body |-> "nil", cachedBody |-> NilBytes, rebuilt |-> NoReader]
NewResponse(body) ==
    [nil |-> FALSE, Body |-> body, cachedBody |-> NilBytes, rebuilt |-> NoReader]

\* NewFlow: an empty route table; the embedded Branch has path "" and nil steps
NewFlow ==
    /\ arrays = [a \in {} |-> <<>>]
    /\ branches = <<[path |-> <<>>, steps |-> NilSlice]>>
    /\ methods = <<>>
    /\ streams = [p \in {} |-> 0]
    /\ dynamicStreams = <<>>
    /\ forks = <<[parent |-> 0, prefix |-> <<>>, given |-> <<>>, made |-> <<>>,
                  madePath |-> <<>>, want |-> <<>>, cleared |-> FALSE, pure |-> TRUE]>>
    /\ calls = <<>>
    /\ reqs = <<>>

\* the router's program: a new Flow, and no client Response (a nil *Response)
Init ==
    /\ NewFlow
    /\ response = NilResponse
    /\ wire = NoReader
    /\ returned = <<>>

\* a wrong Fork: "/" is concatenated like any other prefix
ForkPrefixKept(path) == path

\* the prefix Fork concatenates: "/" counts as ""
ForkPrefix(path) == IF path = <<"/">> THEN <<>> ELSE path

\* b.Fork(path, steps), steps being n fresh Steps
Fork(b, path, n) ==
    LET nb == Len(branches) + 1
        given == ForkStepArgs(nb, n)
        r == AppendSteps(arrays, branches[b].steps, given, <<"f", nb>>)
    IN  /\ arrays' = r.arrays
        /\ branches' = Append(branches,
                [path |-> branches[b].path \o ForkPrefix(path), steps |-> r.slice])
        /\ forks' = Append(forks,
                [parent |-> b, prefix |-> path, given |-> given,
                 made |-> Contents(r.arrays, r.slice),
                 madePath |-> branches[b].path \o ForkPrefix(path),
                 want |-> forks[b].want \o given,
                 cleared |-> FALSE,
                 pure |-> forks[b].pure /\ ~forks[b].cleared])
        /\ UNCHANGED <<methods, streams, dynamicStreams, calls, reqs, clientVars>>

\* a wrong ClearSteps: the steps are kept
ClearedStepsKept(s) == s

\* the value ClearSteps assigns to b.steps
ClearedSteps(s) == NilSlice

\* a wrong ClearSteps: it empties the backing array in place
ClearStepsInPlace(b) ==
    LET s == branches[b].steps IN
    /\ arrays' = IF s.arr \in DOMAIN arrays
                  THEN [arrays EXCEPT ![s.arr] = [i \in 1..s.cap |-> NilStep]]
                  ELSE arrays
    /\ branches' = [branches EXCEPT ![b].steps = NilSlice]
    /\ forks' = [forks EXCEPT ![b].cleared = TRUE, ![b].want = <<>>]
    /\ UNCHANGED <<methods, streams, dynamicStreams, calls, reqs, clientVars>>

\* b.ClearSteps()
ClearSteps(b) ==
    /\ branches' = [branches EXCEPT ![b].steps = ClearedSteps(@)]
    /\ forks' = [forks EXCEPT ![b].cleared = TRUE, ![b].want = <<>>]
    /\ UNCHANGED <<arrays, methods, streams, dynamicStreams, calls, reqs, clientVars>>

\* a wrong switch: no default case, every method is accepted
SupportedAny(method) == TRUE

\* the switch on method in Stream: m with h stored under method; the default
\* case panics
Supported(method) == method \in {"GET", "POST"}
SetMethod(m, method, h) ==
    IF method = "GET" THEN [m EXCEPT !.GET = h] ELSE [m EXCEPT !.POST = h]

\* a wrong test: on the full path
IsDynamicFull(path, finalPath) == Contains(finalPath, ":") \/ Contains(finalPath, "*")

\* the test that makes a registration dynamic: on the path fragment given to
\* Stream, not on the full path
IsDynamic(path, finalPath) == Contains(path, ":") \/ Contains(path, "*")

\* b.Stream(method, path, steps, sink), steps being n fresh Steps and sink a
\* fresh Sink. An unsupported method panics after finalSteps was appended.
Stream(b, method, path, n) ==
    LET k == Len(calls) + 1
        given == StreamStepArgs(k, n)
        finalPath == branches[b].path \o path
        r == AppendSteps(arrays, branches[b].steps, given, <<"s", k>>)
        known == finalPath \in DOMAIN streams
        mid == IF known THEN streams[finalPath] ELSE Len(methods) + 1
        m == IF known THEN methods[mid] ELSE NewMethods
        h == [steps |-> r.slice, sink |-> k]
        dyn == IsDynamic(path, finalPath)
        re == convertPathToRegex(finalPath)
        call == [branch |-> b, method |-> method, sub |-> path, path |-> finalPath,
                 given |-> given, got |-> Contents(r.arrays, r.slice),
                 want |-> forks[b].want \o given, pure |-> forks[b].pure,
                 cleared |-> forks[b].cleared,
                 sink |-> k, dynamic |-> dyn,
                 mid |-> IF Supported(method) THEN mid ELSE 0,
                 panicked |-> ~Supported(method)]
    IN  /\ IF Supported(method)
           THEN /\ arrays' = r.arrays
                /\ methods' = IF known THEN [methods EXCEPT ![mid] = SetMethod(m, method, h)]
                               ELSE Append(methods, SetMethod(m, method, h))
                /\ IF dyn
                   THEN /\ dynamicStreams' = Append(dynamicStreams,
                               [pattern |-> re.pattern, methods |-> mid,
                                hasPathParams |-> re.hasParams])
                        /\ UNCHANGED streams
                   ELSE /\ streams' = [q \in DOMAIN streams \cup {finalPath} |->
                                          IF q = finalPath THEN mid ELSE streams[q]]
                        /\ UNCHANGED dynamicStreams
                /\ calls' = Append(calls, call)
           ELSE \* panic: the array append allocated, if any, is unreachable
                /\ arrays' = IF r.slice.arr \in DOMAIN arrays THEN r.arrays ELSE arrays
                /\ calls' = Append(calls, call)
                /\ UNCHANGED <<methods, streams, dynamicStreams>>
        /\ UNCHANGED <<branches, forks, reqs, clientVars>>

----------------------------------------------------------------------------
(* Dispatch: Flow.ServeHTTP and the Step chain *)

RECURSIVE Wrap(_, _, _)
\* the loop `for i := len(s.steps) - 1; i >= 0; i-- { sink = s.steps[i](sink) }`:
\* a composed Sink is written outermost first, the route's Sink last
Wrap(steps, i, sink) ==
    IF i = 0 THEN sink ELSE Wrap(steps, i - 1, <<steps[i]>> \o sink)

RECURSIVE WrapForward(_, _, _)
\* a wrong loop: the steps are wrapped from the first to the last, which makes
\* the last Step the outermost
WrapForward(steps, i, sink) ==
    IF i > Len(steps) THEN sink ELSE WrapForward(steps, i + 1, <<steps[i]>> \o sink)
BuildChainForward(steps, sink) == WrapForward(steps, 1, <<sink>>)

\* the chain ServeHTTP builds for a stream
BuildChain(steps, sink) == Wrap(steps, Len(steps), <<sink>>)

\* a wrong switch: an unsupported method is answered like a missing route
SelectStreamNotFound(m, method) ==
    IF method = "GET" THEN [status |-> IF m.GET.sink = 0 THEN 404 ELSE 200, s |-> m.GET]
    ELSE IF method = "POST"
    THEN [status |-> IF m.POST.sink = 0 THEN 404 ELSE 200, s |-> m.POST]
    ELSE [status |-> 404, s |-> NoStream]

\* the stream ServeHTTP selects for the method, and the response when there
\* is none: 405 for a method other than GET and POST, 404 for a nil stream
SelectStream(m, method) ==
    IF method = "GET" THEN [status |-> IF m.GET.sink = 0 THEN 404 ELSE 200, s |-> m.GET]
    ELSE IF method = "POST"
    THEN [status |-> IF m.POST.sink = 0 THEN 404 ELSE 200, s |-> m.POST]
    ELSE [status |-> 405, s |-> NoStream]

\* a wrong Sink.ServeHTTP: the store of the dispatch started last is reused
MakeLocalShared(rs) == IF rs = <<>> THEN [k \in {} |-> <<>>] ELSE rs[Len(rs)].local

\* the local store Sink.ServeHTTP gives a dispatch: make(map[string]any);
\* rs are the dispatches started before
MakeLocal(rs) == [k \in {} |-> <<>>]

\* the outcome of ServeHTTP up to the call of the composed Sink
Resolve(method, path) ==
    LET r == getStreamMethodsForPath(path) IN
    IF ~r.found
    THEN [status |-> 404, found |-> FALSE, mid |-> 0, params |-> NilParams, s |-> NoStream]
    ELSE LET sel == SelectStream(methods[r.mid], method)
         IN  [status |-> sel.status, found |-> TRUE, mid |-> r.mid,
              params |-> r.params, s |-> sel.s]

\* f.ServeHTTP(w, req) up to the call of the composed Sink: resolution, the
\* error responses, the chain, and the FlowContext Sink.ServeHTTP creates
\* (local is its store, log the history of the calls made on it). status 200
\* stands for "the chain was invoked".
Dispatch(method, path) ==
    LET r == Resolve(method, path)
        steps == StepsOf(r.s.steps)
    IN  [method |-> method, path |-> path, status |-> r.status,
         found |-> r.found, mid |-> r.mid, params |-> r.params,
         steps |-> IF r.status = 200 THEN steps ELSE <<>>,
         sink |-> r.s.sink,
         chain |-> IF r.status = 200 THEN BuildChain(steps, r.s.sink) ELSE <<>>,
         depth |-> 0,
         dir |-> IF r.status = 200 THEN "in" ELSE "out",
         short |-> 0,
         trace |-> <<>>,
         local |-> MakeLocal(reqs),
         log |-> <<>>]

\* a wrong ServeHTTP: a path resolved through the dynamic list is remembered
\* in the static map
ServeHTTPCaching(method, path) ==
    LET q == Dispatch(method, path) IN
    /\ reqs' = Append(reqs, q)
    /\ streams' = IF q.found /\ path \notin DOMAIN streams
                   THEN [p \in DOMAIN streams \cup {path} |->
                            IF p = path THEN q.mid ELSE streams[p]]
                   ELSE streams
    /\ UNCHANGED <<arrays, branches, methods, dynamicStreams, forks, calls, clientVars>>

\* the ServeHTTP call: a dispatch is started, the router is only read
ServeHTTP(method, path) ==
    /\ reqs' = Append(reqs, Dispatch(method, path))
    /\ UNCHANGED <<arrays, branches, methods, streams, dynamicStreams, forks, calls, clientVars>>

\* a wrong wrapper: next is entered even when fn returned without calling it
CreateStepAlwaysNext(q, callsNext) ==
    [q EXCEPT !.depth = @ + 1,
              !.short = IF callsNext THEN @ ELSE q.depth + 1,
              !.trace = Append(@, <<"pre", q.chain[q.depth + 1]>>)]

\* a wrong wrapper: it blocks when fn returned without calling next
CreateStepBlocks(q, callsNext) ==
    IF callsNext
    THEN [q EXCEPT !.depth = @ + 1, !.trace = Append(@, <<"pre", q.chain[q.depth + 1]>>)]
    ELSE [q EXCEPT !.dir = "blocked", !.short = q.depth + 1,
                   !.trace = Append(@, <<"pre", q.chain[q.depth + 1]>>)]

\* the Sink CreateStep returns, invoked: fn(next, ctx) runs, and only fn
\* decides whether next is called
CreateStep(q, callsNext) ==
    IF callsNext
    THEN [q EXCEPT !.depth = @ + 1, !.trace = Append(@, <<"pre", q.chain[q.depth + 1]>>)]
    ELSE [q EXCEPT !.dir = "out", !.short = q.depth + 1,
                   !.trace = Append(@, <<"pre", q.chain[q.depth + 1]>>)]

\* the next Step of request i is entered and runs up to its call of next, or
\* to its return when it does not call next
EnterStep(i, callsNext) ==
    /\ i \in 1..Len(reqs)
    /\ reqs[i].status = 200 /\ reqs[i].dir = "in"
    /\ reqs[i].depth + 1 < Len(reqs[i].chain)
    /\ reqs' = [reqs EXCEPT ![i] = CreateStep(@, callsNext)]
    /\ UNCHANGED <<arrays, branches, methods, streams, dynamicStreams, forks, calls, clientVars>>

\* the route's Sink runs and returns
RunSink(i) ==
    /\ i \in 1..Len(reqs)
    /\ reqs[i].status = 200 /\ reqs[i].dir = "in"
    /\ reqs[i].depth + 1 = Len(reqs[i].chain)
    /\ reqs' = [reqs EXCEPT ![i].dir = "out",
                             ![i].trace = Append(@, <<"sink", reqs[i].chain[reqs[i].depth + 1]>>)]
    /\ UNCHANGED <<arrays, branches, methods, streams, dynamicStreams, forks, calls, clientVars>>

\* next(ctx) returns into the innermost Step still on the stack, which runs
\* its post-logic and returns
ReturnStep(i) ==
    /\ i \in 1..Len(reqs)
    /\ reqs[i].status = 200 /\ reqs[i].dir = "out"
    /\ reqs[i].depth > 0
    /\ reqs' = [reqs EXCEPT ![i].depth = @ - 1,
                             ![i].trace = Append(@, <<"post", reqs[i].chain[reqs[i].depth]>>)]
    /\ UNCHANGED <<arrays, branches, methods, streams, dynamicStreams, forks, calls, clientVars>>

\* request i has returned from ServeHTTP
Done(i) == reqs[i].dir = "out" /\ reqs[i].depth = 0

----------------------------------------------------------------------------
(* FlowContext: Set, Get, Delete *)

NilValue == <<>>   \* a nil `any`

\* f.local[key] = value
LocalSet(local, key, value) ==
    [k \in DOMAIN local \cup {key} |-> IF k = key THEN value ELSE local[k]]

\* f.local[key]: the zero value when the key is missing
LocalGet(local, key) == IF key \in DOMAIN local THEN local[key] ELSE NilValue

\* a wrong Delete: the entry is kept
LocalDeleteKept(local, key) == local

\* delete(f.local, key)
LocalDelete(local, key) == [k \in DOMAIN local \ {key} |-> local[k]]

\* dispatch i is inside its chain: a Step or the handler is running
InFlight(i) ==
    /\ i \in 1..Len(reqs)
    /\ reqs[i].status = 200
    /\ reqs[i].dir = "in" \/ reqs[i].depth > 0

\* the Step or handler of dispatch i that is running, as its position in the
\* chain: on the way in the one entered last (its pre-logic, or the handler),
\* on the way out the one whose next has returned (its post-logic)
Running(q) == IF q.dir = "in" THEN q.depth + 1 ELSE q.depth

\* the number of Set, Get and Delete calls made so far, over all dispatches
RECURSIVE CtxOps(_)
CtxOps(i) == IF i = 0 THEN 0 ELSE Len(reqs[i].log) + CtxOps(i - 1)

\* the entry a call on the context of dispatch i adds to its log: the call,
\* its value (given to Set, returned by Get), who made it, and the values the
\* stores of the other dispatches hold under the key at the time of the call
LogEntry(i, op, key, value) ==
    [op |-> op, key |-> key, value |-> value, by |-> Running(reqs[i]),
     others |-> { reqs[j].local[key] :
                    j \in { l \in 1..Len(reqs) : l # i /\ key \in DOMAIN reqs[l].local } }]

\* ctx.Set(key, value) by the running Step or handler of dispatch i; the
\* value is a fresh one, named by the dispatch and the position of the call
\* in it
Set(i, key) ==
    LET value == <<i, Len(reqs[i].log) + 1>> IN
    /\ InFlight(i)
    /\ reqs' = [reqs EXCEPT ![i].local = LocalSet(@, key, value),
                             ![i].log = Append(@, LogEntry(i, "set", key, value))]
    /\ UNCHANGED <<arrays, branches, methods, streams, dynamicStreams, forks, calls, clientVars>>

\* ctx.Get(key) by the running Step or handler of dispatch i
Get(i, key) ==
    /\ InFlight(i)
    /\ reqs' = [reqs EXCEPT ![i].log =
                    Append(@, LogEntry(i, "get", key, LocalGet(reqs[i].local, key)))]
    /\ UNCHANGED <<arrays, branches, methods, streams, dynamicStreams, forks, calls, clientVars>>

\* ctx.Delete(key) by the running Step or handler of dispatch i
Delete(i, key) ==
    /\ InFlight(i)
    /\ reqs' = [reqs EXCEPT ![i].local = LocalDelete(@, key),
                             ![i].log = Append(@, LogEntry(i, "delete", key, NilValue))]
    /\ UNCHANGED <<arrays, branches, methods, streams, dynamicStreams, forks, calls, clientVars>>

----------------------------------------------------------------------------
(* The client's Response (src/client/response.go) *)

\* the bytes a body is made of, and the bodies the model draws from: among
\* them "" (no JSON text), "{}" (an object), "1" (JSON, but no object) and
\* "{1" (no JSON text)
BodyChars == { "{", "}", "1" }
Bodies == UNION { [1..n -> BodyChars] : n \in 0..MaxBodyLen }

\* io.ReadAll(r): everything r still holds, or the error of the read that
\* fails; a closed body cannot be read
ReadAll(r) ==
    IF r.closed
    THEN [err |-> TRUE, bytes |-> NilBytes, reader |-> [r EXCEPT !.reads = @ + 1]]
    ELSE IF r.fail
    THEN [err |-> TRUE, bytes |-> NonNil(SubSeq(r.data, r.pos + 1, r.cut)),
          reader |-> [r EXCEPT !.reads = @ + 1, !.pos = r.cut, !.fail = FALSE]]
    ELSE [err |-> FALSE, bytes |-> NonNil(SubSeq(r.data, r.pos + 1, Len(r.data))),
          reader |-> [r EXCEPT !.reads = @ + 1, !.pos = Len(r.data)]]

\* r.Close()
Close(r) == [r EXCEPT !.closed = TRUE, !.closes = @ + 1]

\* the result of getDataCopy: what it returns, and the Response and the
\* received body as it leaves them
DataCopy(bytes, err, resp, body) ==
    [bytes |-> bytes, err |-> err, resp |-> resp, wire |-> body]

\* a wrong getDataCopy: the body is read on every call, nothing is kept
getDataCopyUncached(resp, body) ==
    IF resp.nil \/ resp.Body = "nil"
    THEN DataCopy(NilBytes, TRUE, resp, body)
    ELSE LET rd == ReadAll(body) IN
         IF rd.err
         THEN DataCopy(NilBytes, TRUE, resp, rd.reader)
         ELSE DataCopy(rd.bytes, FALSE, resp, Close(rd.reader))

\* resp.getDataCopy(): the cached bytes if there are any; otherwise the body
\* is read to its end, closed, replaced by a reader over the bytes read, and
\* the bytes are cached
getDataCopy(resp, body) ==
    IF resp.nil \/ resp.Body = "nil"
    THEN DataCopy(NilBytes, TRUE, resp, body)
    ELSE IF ~resp.cachedBody.nil
    THEN DataCopy(resp.cachedBody, FALSE, resp, body)
    ELSE LET onWire == resp.Body = "wire"
             rd == ReadAll(IF onWire THEN body ELSE resp.rebuilt)
         IN  IF rd.err
             THEN DataCopy(NilBytes, TRUE,
                           IF onWire THEN resp ELSE [resp EXCEPT !.rebuilt = rd.reader],
                           IF onWire THEN rd.reader ELSE body)
             ELSE DataCopy(rd.bytes, FALSE,
                           [resp EXCEPT !.Body = "copy",
                                        !.rebuilt = Reader(rd.bytes.bytes, FALSE, 0),
                                        !.cachedBody = rd.bytes],
                           IF onWire THEN Close(rd.reader) ELSE body)

\* json.Unmarshal(body, &data) with data a map[string]any: of the bodies
\* over BodyChars only "{}" is a JSON object; "1" and "11" are JSON numbers,
\* which a map cannot take, and the others are not JSON texts
Unmarshal(body) ==
    IF body = <<"{", "}">>
    THEN [err |-> FALSE, data |-> "map[]"]
    ELSE [err |-> TRUE, data |-> "nil"]

\* the call returns: the Response and the body are as getDataCopy left them
Return(call, g, err, value) ==
    /\ response' = g.resp
    /\ wire' = g.wire
    /\ returned' = Append(returned, [call |-> call, readErr |-> g.err, bytes |-> g.bytes,
                                      err |-> err, value |-> value])
    /\ UNCHANGED flowVars

\* r.Json()
Json ==
    LET g == getDataCopy(response, wire) IN
    IF g.err
    THEN Return("Json", g, TRUE, "nil")
    ELSE LET u == Unmarshal(g.bytes.bytes) IN Return("Json", g, u.err, u.data)

\* r.String()
String ==
    LET g == getDataCopy(response, wire) IN
    IF g.err
    THEN Return("String", g, TRUE, <<>>)
    ELSE Return("String", g, FALSE, g.bytes.bytes)

\* r.Bytes()
Bytes ==
    LET g == getDataCopy(response, wire) IN
    Return("Bytes", g, g.err, g.bytes)

----------------------------------------------------------------------------
(* Specifications *)

\* the number of Fork and Stream calls made so far
Ops == (Len(branches) - 1) + Len(calls)

\* the registration calls of the application's setup code
Register(maxOps, forkPaths, streamPaths) ==
    \/ \E b \in 1..Len(branches), path \in forkPaths, n \in 0..MaxForkSteps :
          Ops < maxOps /\ Fork(b, path, n)
    \/ \E b \in 1..Len(branches) :
          Cardinality({c \in 1..Len(forks) : forks[c].cleared} \cup {b}) <= MaxClears
          /\ ClearSteps(b)
    \/ \E b \in 1..Len(branches), method \in Methods, path \in streamPaths,
          n \in 0..MaxStreamSteps : Ops < maxOps /\ Stream(b, method, path, n)

\* the steps of the dispatches
Serve ==
    \/ \E method \in Methods, path \in RequestPaths :
          Len(reqs) < MaxReqs /\ ServeHTTP(method, path)
    \/ \E i \in 1..Len(reqs), callsNext \in BOOLEAN : EnterStep(i, callsNext)
    \/ \E i \in 1..Len(reqs) : RunSink(i)
    \/ \E i \in 1..Len(reqs) : ReturnStep(i)

\* The router as the application runs it: the routes are registered, then
\* requests are served (registration is complete before traffic is accepted).
Next ==
    \/ reqs = <<>> /\ Register(MaxServeOps, ForkPaths, StreamPaths)
    \/ Serve

Spec == Init /\ [][Next]_vars

\* The registration API alone, on a deeper tree of branches.
NextBranch == Register(MaxOps, {<<"/", "a">>}, {<<"/", "p">>})

SpecBranch == Init /\ [][NextBranch]_vars

\* Route resolution: routes are registered through branches forked without
\* Steps, then one request is resolved by ServeHTTP.
NextRoute ==
    \/ \E b \in 1..Len(branches), path \in RouteForkPaths :
          reqs = <<>> /\ Ops < MaxRouteOps /\ Fork(b, path, 0)
    \/ \E b \in 1..Len(branches), method \in RouteMethods, path \in RouteStreamPaths,
          n \in 0..MaxStreamSteps :
          reqs = <<>> /\ Ops < MaxRouteOps /\ Stream(b, method, path, n)
    \/ \E method \in RouteMethods, path \in RouteRequestPaths :
          Len(reqs) < MaxReqs /\ ServeHTTP(method, path)

SpecRoute == Init /\ [][NextRoute]_vars

\* a step of the chain of dispatch i: code of a Step or of the handler runs
Run(i) ==
    \/ \E callsNext \in BOOLEAN : EnterStep(i, callsNext)
    \/ RunSink(i)
    \/ ReturnStep(i)

\* Spec with Steps and handlers that terminate: a dispatch whose chain can
\* take a step takes it eventually.
SpecLive == Init /\ [][Next]_vars /\ \A i \in 1..MaxReqs : WF_vars(Run(i))

\* The client: a Response (none, one without a body, or one whose body holds
\* any of the Bodies and may fail on its first read after any number of
\* bytes), and the calls the application makes on it, in any order.
InitResponse ==
    /\ NewFlow
    /\ returned = <<>>
    /\ \/ response = NilResponse /\ wire = NoReader
       \/ response = NewResponse("nil") /\ wire = NoReader
       \/ \E data \in Bodies, fail \in BOOLEAN, cut \in 0..MaxBodyLen :
             /\ cut <= Len(data)
             /\ ~fail => cut = 0
             /\ response = NewResponse("wire")
             /\ wire = Reader(data, fail, cut)

NextResponse ==
    \/ Len(returned) < MaxCalls /\ Json
    \/ Len(returned) < MaxCalls /\ String
    \/ Len(returned) < MaxCalls /\ Bytes

SpecResponse == InitResponse /\ [][NextResponse]_vars

\* Concurrent traffic: the routes are registered, then dispatches run
\* interleaved (net/http serves each request on its own goroutine).
NextServe ==
    \/ reqs = <<>> /\ Register(MaxServeOps, ForkPaths, StreamPaths)
    \/ \E method \in Methods, path \in RequestPaths :
          Len(reqs) < MaxCtxReqs /\ ServeHTTP(method, path)
    \/ \E i \in 1..Len(reqs), callsNext \in BOOLEAN : EnterStep(i, callsNext)
    \/ \E i \in 1..Len(reqs) : RunSink(i)
    \/ \E i \in 1..Len(reqs) : ReturnStep(i)

SpecServe == Init /\ [][NextServe]_vars

\* Repeated registration: GET and POST routes for the one subpath /p are
\* registered, and registered again, through branches forked with Steps.
NextOverwrite ==
    \/ \E b \in 1..Len(branches), n \in 1..MaxForkSteps :
          Ops < MaxOverwriteOps /\ Fork(b, <<"/", "a">>, n)
    \/ \E b \in 1..Len(branches), method \in RouteMethods, n \in 0..MaxStreamSteps :
          Ops < MaxOverwriteOps /\ Stream(b, method, <<"/", "p">>, n)

SpecOverwrite == Init /\ [][NextOverwrite]_vars

\* The request context: one route GET /p is registered, with or without a
\* Step; dispatches of it run interleaved (net/http serves each request on
\* its own goroutine) and their Steps and handlers call Set, Get and Delete.
NextContext ==
    \/ \E n \in 0..MaxStreamSteps :
          calls = <<>> /\ Stream(1, "GET", <<"/", "p">>, n)
    \/ calls # <<>> /\ Len(reqs) < MaxCtxReqs /\ ServeHTTP("GET", <<"/", "p">>)
    \/ \E i \in 1..Len(reqs), callsNext \in BOOLEAN : EnterStep(i, callsNext)
    \/ \E i \in 1..Len(reqs) : RunSink(i)
    \/ \E i \in 1..Len(reqs) : ReturnStep(i)
    \/ \E i \in 1..Len(reqs), key \in CtxKeys :
          CtxOps(Len(reqs)) < MaxCtxOps /\ Set(i, key)
    \/ \E i \in 1..Len(reqs), key \in CtxKeys :
          CtxOps(Len(reqs)) < MaxCtxOps /\ Get(i, key)
    \/ \E i \in 1..Len(reqs), key \in CtxKeys :
          CtxOps(Len(reqs)) < MaxCtxOps /\ Delete(i, key)

SpecContext == Init /\ [][NextContext]_vars

----------------------------------------------------------------------------
(* Properties of the Step chain (Spec) *)

\* the events of a dispatch that runs steps[1..upto] inward, then the Sink
\* when withSink, then the post-logic of steps[back..1]
Events(steps, upto, withSink, sink, back) ==
    [j \in 1..upto |-> <<"pre", steps[j]>>]
    \o (IF withSink THEN <<<<"sink", sink>>>> ELSE <<>>)
    \o [j \in 1..back |-> <<"post", steps[back + 1 - j]>>]

IsPrefix(s, t) == Len(s) <= Len(t) /\ SubSeq(t, 1, Len(s)) = s

\* C1: a dispatch of a route with middleware list steps and handler H in
\* which every Step calls next runs the pre-logic of steps[1], ..., steps[n],
\* then H, then the post-logic of steps[n], ..., steps[1]: the first Step of
\* the list is the outermost wrapper. While the dispatch runs, its events are
\* a prefix of that sequence.
C1_MiddlewareOrder ==
    \A i \in 1..Len(reqs) :
        LET q == reqs[i]
            all == Events(q.steps, Len(q.steps), TRUE, q.sink, Len(q.steps))
        IN  (q.status = 200 /\ q.short = 0) =>
                /\ IsPrefix(q.trace, all)
                /\ Done(i) => q.trace = all

\* a finished dispatch through three Steps that all called next
C1_Witness ==
    \E i \in 1..Len(reqs) :
        /\ reqs[i].status = 200 /\ Done(i) /\ reqs[i].short = 0
        /\ Len(reqs[i].steps) = 3
        /\ Len(reqs[i].trace) = 7

\* C2: when the Step at position k returns without calling next, no Step
\* after k and not the handler runs, and the post-logic of the Steps before
\* k runs, innermost first: the events are the pre-logic of steps[1..k]
\* followed by the post-logic of steps[k-1], ..., steps[1].
C2_ShortCircuit ==
    \A i \in 1..Len(reqs) :
        LET q == reqs[i]
            k == q.short
            all == Events(q.steps, k, FALSE, q.sink, k - 1)
        IN  (q.status = 200 /\ k > 0) =>
                /\ IsPrefix(q.trace, all)
                /\ Done(i) => q.trace = all
                /\ \A j \in 1..Len(q.trace) :
                      /\ q.trace[j][1] # "sink"
                      /\ \A l \in (k + 1)..Len(q.steps) : q.trace[j][2] # q.steps[l]

\* a finished dispatch whose second Step of three did not call next
C2_Witness ==
    \E i \in 1..Len(reqs) :
        /\ reqs[i].status = 200 /\ Done(i)
        /\ Len(reqs[i].steps) = 3 /\ reqs[i].short = 2
        /\ Len(reqs[i].trace) = 3

----------------------------------------------------------------------------
(* Properties of resolution and of the error responses (Spec) *)

\* the request path equals a static key or matches a dynamic pattern
PathResolves(path) ==
    \/ path \in DOMAIN streams
    \/ \E j \in 1..Len(dynamicStreams) : Match(dynamicStreams[j].pattern, path).ok

\* the Stream calls that returned
OkCalls == { k \in 1..Len(calls) : ~calls[k].panicked }

\* the request path is one the route registered by call c is meant for
TemplateMatches(c, path) ==
    IF c.dynamic THEN Match(convertPathToRegex(c.path).pattern, path).ok
    ELSE path = c.path

\* C8: the GET and the POST registration made for one path string through
\* one branch, static or dynamic, form one route group: a GET request on a
\* matching path runs the GET handler and a POST request the POST handler.
\* (Stated for a router that holds these two registrations only.)
C8_OneGroupPerPath ==
    \A g \in OkCalls, p \in OkCalls :
        ( /\ OkCalls = {g, p}
          /\ calls[g].method = "GET" /\ calls[p].method = "POST"
          /\ calls[g].branch = calls[p].branch /\ calls[g].sub = calls[p].sub )
        => \A i \in 1..Len(reqs) :
              TemplateMatches(calls[g], reqs[i].path) =>
                /\ reqs[i].method = "GET" =>
                      reqs[i].status = 200 /\ reqs[i].sink = calls[g].sink
                /\ reqs[i].method = "POST" =>
                      reqs[i].status = 200 /\ reqs[i].sink = calls[p].sink

\* C9: a GET or POST request whose path resolves to a route group that has
\* no entry for the method is answered MethodNotAllowed (405).
C9_MissingMethodIs405 ==
    \A i \in 1..Len(reqs) :
        LET q == reqs[i]
            r == getStreamMethodsForPath(q.path)
        IN  ( /\ r.found
              /\ \/ q.method = "GET" /\ methods[r.mid].GET = NoStream
                 \/ q.method = "POST" /\ methods[r.mid].POST = NoStream )
            => q.status = 405

\* C10: a request on a path that equals no static key and matches no dynamic
\* pattern is answered NotFound (404) whatever its method, and a request with
\* a method other than GET and POST on a path that resolves is answered
\* MethodNotAllowed (405).
C10_NotFoundVsNotAllowed ==
    \A i \in 1..Len(reqs) :
        LET q == reqs[i] IN
        /\ ~PathResolves(q.path) => q.status = 404
        /\ (PathResolves(q.path) /\ q.method \notin {"GET", "POST"}) => q.status = 405

\* a DELETE request on a path that only a dynamic pattern resolves, answered 405
C10_Witness ==
    \E i \in 1..Len(reqs) :
        /\ reqs[i].method = "DELETE" /\ reqs[i].status = 405
        /\ reqs[i].path \notin DOMAIN streams /\ PathResolves(reqs[i].path)

----------------------------------------------------------------------------
(* Properties of the branches and of the registered middleware (SpecBranch) *)

\* the history variables record, per Branch (forks): the prefix and the Steps
\* its Fork was given, the list and path its Fork produced (made, madePath), the list it
\* is meant to pass on (want: the parent's want followed by given, empty after
\* ClearSteps), whether ClearSteps was called on it (cleared) and whether no
\* ancestor had been cleared when it was forked (pure); per Stream call
\* (calls): the arguments, the list stored at the call (got) and want, pure,
\* cleared of the branch at the call.

\* the route entry a Stream call stored
Entry(c) == IF c.method = "GET" THEN methods[c.mid].GET ELSE methods[c.mid].POST

\* no later Stream call stored another entry in the place of call k's
Current(k) ==
    \A d \in OkCalls :
        d > k => ~(calls[d].mid = calls[k].mid /\ calls[d].method = calls[k].method)

\* the middleware list ServeHTTP reads for the route of call c
DispatchedSteps(c) == StepsOf(Entry(c).steps)

\* C3: a route registered through a branch (no ClearSteps involved) is
\* dispatched with the Steps of every ancestor Fork from the root down, then
\* those of the branch's own Fork, then the extra Steps given to Stream.
C3_InheritedMiddleware ==
    \A k \in OkCalls :
        (Current(k) /\ calls[k].pure /\ ~calls[k].cleared)
            => DispatchedSteps(calls[k]) = calls[k].want

\* C4: the handler and the middleware list dispatched for a registered
\* (path, method) stay what they were at its registration, whatever Fork,
\* ClearSteps and Stream calls for other (path, method) pairs follow.
C4_RouteImmutable ==
    \A k \in OkCalls :
        (\A d \in OkCalls \ {k} :
            ~(calls[d].path = calls[k].path /\ calls[d].method = calls[k].method))
        => /\ DispatchedSteps(calls[k]) = calls[k].got
           /\ Entry(calls[k]).sink = calls[k].sink

\* C5: every branch keeps the path and the middleware list its own Fork
\* produced, or the empty list after its own ClearSteps, whatever is called
\* on other branches.
C5_BranchIsolated ==
    \A b \in 1..Len(branches) :
        /\ branches[b].path = forks[b].madePath
        /\ StepsOf(branches[b].steps) =
              IF forks[b].cleared THEN <<>> ELSE forks[b].made

\* C6: a route registered through a branch after ClearSteps was called on
\* that branch is dispatched with the extra Steps of its Stream call only.
C6_ClearedBranchRoutes ==
    \A k \in OkCalls :
        (Current(k) /\ calls[k].cleared)
            => DispatchedSteps(calls[k]) = calls[k].given

\* root forked with Steps, a branch forked from that with Steps and cleared,
\* then a route registered through it with no extra Steps: dispatched with none
C6_Witness ==
    \E k \in OkCalls :
        LET c == calls[k]
            b == c.branch
        IN  /\ c.cleared /\ c.given = <<>> /\ DispatchedSteps(c) = <<>>
            /\ forks[b].given # <<>>
            /\ forks[b].parent > 1 /\ forks[forks[b].parent].given # <<>>

\* the step is a ClearSteps call on branch b (in SpecBranch, a step that
\* adds no Branch and no Stream call is a ClearSteps call)
IsClearStep(b) ==
    /\ Len(branches') = Len(branches) /\ calls' = calls
    /\ ~forks[b].cleared /\ forks'[b].cleared

\* C7: ClearSteps on branch b changes the steps of b and nothing else: not
\* the route table nor the middleware of any registered route, not the path
\* of b, not the path or middleware of any other branch.
C7_ClearStepsFrame ==
    [][\A b \in 1..Len(branches) :
          IsClearStep(b) =>
            /\ streams' = streams /\ dynamicStreams' = dynamicStreams
            /\ methods' = methods
            /\ \A k \in OkCalls :
                  Contents(arrays', Entry(calls[k]).steps)
                      = Contents(arrays, Entry(calls[k]).steps)
            /\ branches'[b].path = branches[b].path
            /\ \A c \in 1..Len(branches) :
                  c # b => /\ branches'[c] = branches[c]
                           /\ Contents(arrays', branches'[c].steps)
                                 = Contents(arrays, branches[c].steps)
      ]_vars

\* ClearSteps has been called on a branch that has Steps of its own, a parent
\* with Steps, a child forked before the call and a route registered before it
C7_Witness ==
    \E b \in 2..Len(branches) :
        /\ forks[b].cleared /\ branches[b].steps = NilSlice
        /\ forks[b].made # <<>> /\ forks[b].parent > 1
        /\ \E c \in 1..Len(branches) :
              forks[c].parent = b /\ forks[c].pure /\ StepsOf(branches[c].steps) # <<>>
        /\ \E k \in OkCalls :
              /\ calls[k].branch = b /\ ~calls[k].cleared
              /\ DispatchedSteps(calls[k]) # <<>>

----------------------------------------------------------------------------
(* Properties of route resolution (SpecRoute) *)

\* the registrations stored in the static map / in the dynamic list
StaticCalls == { k \in OkCalls : ~calls[k].dynamic }
DynamicCalls == { k \in OkCalls : calls[k].dynamic }

\* parameter names a handler may ask for
ParamNames == { <<"i">>, <<"p">>, <<"a">>, <<>> }

\* C11: for every path P registered as a static route, resolving P returns
\* the route group registered for P with an empty parameter mapping, so that
\* Param(name) is the empty string for every name; a dispatch on P does.
C11_StaticResolves ==
    /\ \A k \in StaticCalls :
          LET r == getStreamMethodsForPath(calls[k].path) IN
          /\ r.found /\ r.mid = calls[k].mid
          /\ r.params = NilParams
          /\ \A name \in ParamNames : Param(r.params, name) = <<>>
    /\ \A i \in 1..Len(reqs), k \in StaticCalls :
          reqs[i].path = calls[k].path =>
             /\ reqs[i].found /\ reqs[i].mid = calls[k].mid
             /\ \A name \in ParamNames : Param(reqs[i].params, name) = <<>>

\* a dispatch on the static key /:i, registered through Fork("/:i"), while a
\* dynamic pattern registered before it matches the same path
C11_Witness ==
    \E i \in 1..Len(reqs), k \in StaticCalls, d \in DynamicCalls :
        /\ d < k /\ calls[k].path = <<"/", ":", "i">> /\ calls[k].branch > 1
        /\ reqs[i].path = calls[k].path /\ reqs[i].status = 200
        /\ TemplateMatches(calls[d], reqs[i].path)
        /\ calls[d].mid # calls[k].mid /\ reqs[i].mid = calls[k].mid

RECURSIVE Split(_, _, _)
\* the "/"-separated segments of path[i..], cur being the segment in progress
Split(path, i, cur) ==
    IF i > Len(path) THEN <<cur>>
    ELSE IF path[i] = "/" THEN <<cur>> \o Split(path, i + 1, <<>>)
    ELSE Split(path, i + 1, Append(cur, path[i]))

Segments(path) == Split(path, 1, <<>>)

\* a :name segment, and a literal segment (no character the pattern compiler
\* or the matcher gives a meaning to)
IsParamSeg(seg) ==
    Len(seg) >= 2 /\ seg[1] = ":" /\ \A j \in 2..Len(seg) : seg[j] \in NameChars
IsLiteralSeg(seg) == \A j \in 1..Len(seg) : seg[j] \notin {":", "*", ".", "\n"}

\* a template of literal and :name segments, at least one :name, no name twice
IsParamTemplate(tmpl) ==
    LET ts == Segments(tmpl) IN
    /\ \A j \in 1..Len(ts) : IsParamSeg(ts[j]) \/ IsLiteralSeg(ts[j])
    /\ \E j \in 1..Len(ts) : IsParamSeg(ts[j])
    /\ \A j, l \in 1..Len(ts) : (IsParamSeg(ts[j]) /\ ts[j] = ts[l]) => j = l

\* the path has the template's shape: the same literal segments, one
\* non-empty segment in place of each :name
HasShape(tmpl, path) ==
    LET ts == Segments(tmpl)
        ps == Segments(path)
    IN  /\ Len(ts) = Len(ps)
        /\ \A j \in 1..Len(ts) :
              IF IsParamSeg(ts[j]) THEN ps[j] # <<>> ELSE ps[j] = ts[j]

\* params binds each name of the template to the text of its segment of path
BindsSegments(params, tmpl, path) ==
    LET ts == Segments(tmpl)
        ps == Segments(path)
        at == { j \in 1..Len(ts) : IsParamSeg(ts[j]) }
    IN  /\ ~params.isNil
        /\ DOMAIN params.kv = { Tail(ts[j]) : j \in at }
        /\ \A j \in at :
              /\ Param(params, Tail(ts[j])) = ps[j]
              /\ ps[j] # <<>> /\ ~Contains(ps[j], "/")

\* C12: for every registered template of literal and :name segments: the
\* compiled pattern matches exactly the request paths of the template's
\* shape and captures, under each name, the text of its segment; a request
\* path of that shape resolves, and when this registration is the one that
\* resolves it (no static key, no earlier pattern takes it), the dispatch
\* gets each name bound to its segment, never empty and never holding "/".
C12_ParamsBound ==
    \A k \in DynamicCalls :
        LET tmpl == calls[k].path
            re == convertPathToRegex(tmpl)
        IN  IsParamTemplate(tmpl) =>
            /\ re.hasParams
            /\ \A path \in RouteRequestPaths :
                  LET r == Match(re.pattern, path) IN
                  /\ r.ok <=> HasShape(tmpl, path)
                  /\ r.ok => BindsSegments(ParamsOf(r.caps), tmpl, path)
            /\ \A i \in 1..Len(reqs) :
                  LET q == reqs[i] IN
                  HasShape(tmpl, q.path) =>
                    /\ q.found
                    /\ (q.path \notin DOMAIN streams /\ q.mid = calls[k].mid)
                          => BindsSegments(q.params, tmpl, q.path)

\* GET /a/4 dispatched to the route registered as /:i/:p, with i = "a" and
\* p = "4"
C12_Witness ==
    \E i \in 1..Len(reqs), k \in DynamicCalls :
        /\ calls[k].path = <<"/", ":", "i", "/", ":", "p">>
        /\ reqs[i].path = <<"/", "a", "/", "4">>
        /\ reqs[i].status = 200 /\ reqs[i].sink = calls[k].sink
        /\ Param(reqs[i].params, <<"i">>) = <<"a">>
        /\ Param(reqs[i].params, <<"p">>) = <<"4">>

\* a template that is a literal prefix followed by one "*"
IsWildcardTemplate(tmpl) ==
    /\ tmpl # <<>> /\ tmpl[Len(tmpl)] = "*"
    /\ \A j \in 1..(Len(tmpl) - 1) : tmpl[j] \notin {":", "*", ".", "\n"}

\* the text of a wildcard template before its "*"
LiteralPrefix(tmpl) == SubSeq(tmpl, 1, Len(tmpl) - 1)

\* an empty, non-nil parameter mapping
EmptyParams == [isNil |-> FALSE, kv |-> <<>>]

\* C13: a template ending in "*" matches every request path that starts with
\* the text before the "*", further "/"-separated segments included: such a
\* request resolves, and when the wildcard registration is the one that
\* resolves it, the parameter mapping is empty.
C13_WildcardMatches ==
    \A k \in DynamicCalls :
        LET tmpl == calls[k].path
            re == convertPathToRegex(tmpl)
        IN  IsWildcardTemplate(tmpl) =>
            /\ ~re.hasParams
            /\ \A i \in 1..Len(reqs) :
                  LET q == reqs[i] IN
                  IsPrefix(LiteralPrefix(tmpl), q.path) =>
                    /\ q.found
                    /\ (q.path \notin DOMAIN streams /\ q.mid = calls[k].mid)
                          => /\ q.params = EmptyParams
                             /\ \A name \in ParamNames : Param(q.params, name) = <<>>

\* the same with the request paths that hold a "\n" left out
C13_WildcardMatchesLines ==
    \A k \in DynamicCalls :
        LET tmpl == calls[k].path
            re == convertPathToRegex(tmpl)
        IN  IsWildcardTemplate(tmpl) =>
            /\ ~re.hasParams
            /\ \A i \in 1..Len(reqs) :
                  LET q == reqs[i] IN
                  (IsPrefix(LiteralPrefix(tmpl), q.path) /\ ~Contains(q.path, "\n")) =>
                    /\ q.found
                    /\ (q.path \notin DOMAIN streams /\ q.mid = calls[k].mid)
                          => /\ q.params = EmptyParams
                             /\ \A name \in ParamNames : Param(q.params, name) = <<>>

\* the dynamic registrations whose pattern matches the path
MatchingCalls(path) == { k \in DynamicCalls : TemplateMatches(calls[k], path) }

\* the parameter mapping the pattern of a dynamic registration gives a path
ParamsFor(c, path) ==
    LET re == convertPathToRegex(c.path) IN
    IF re.hasParams THEN ParamsOf(Match(re.pattern, path).caps) ELSE EmptyParams

\* C14: when no static key equals the request path and one or more dynamic
\* patterns match it, the dispatch gets the route group and the parameters
\* of the matching pattern that was registered first, whatever was
\* registered after it.
C14_FirstDynamicWins ==
    \A i \in 1..Len(reqs) :
        LET q == reqs[i]
            ms == MatchingCalls(q.path)
        IN  (q.path \notin DOMAIN streams /\ ms # {}) =>
               LET first == CHOOSE k \in ms : \A l \in ms : k <= l IN
               /\ q.found
               /\ q.mid = calls[first].mid
               /\ q.params = ParamsFor(calls[first], q.path)

\* /:i registered, then /*, then a third route: GET /4 goes to /:i with i = "4"
C14_Witness ==
    \E i \in 1..Len(reqs), k, l \in DynamicCalls :
        /\ k < l /\ l < Len(calls)
        /\ calls[k].path = <<"/", ":", "i">> /\ calls[l].path = <<"/", "*">>
        /\ calls[k].mid # calls[l].mid
        /\ reqs[i].path = <<"/", "4">>
        /\ {k, l} \subseteq MatchingCalls(reqs[i].path)
        /\ reqs[i].mid = calls[k].mid
        /\ Param(reqs[i].params, <<"i">>) = <<"4">>

----------------------------------------------------------------------------
(* Properties of a failed registration (Spec) *)

\* C15: a Stream call panics inside the call exactly when its method is
\* neither "GET" nor "POST", whatever the branch and the path; the failure
\* is not left for dispatch: the handler of such a call is stored in no
\* route group and no request is dispatched to it.
C15_UnsupportedMethodPanics ==
    \A k \in 1..Len(calls) :
        /\ calls[k].panicked <=> calls[k].method \notin {"GET", "POST"}
        /\ calls[k].method \notin {"GET", "POST"} =>
              /\ \A m \in 1..Len(methods) :
                    methods[m].GET.sink # k /\ methods[m].POST.sink # k
              /\ \A i \in 1..Len(reqs) : reqs[i].sink # k

\* Stream("DELETE", "/:i") through a branch forked at /a has panicked, and a
\* later request on /a/4 finds no route
C15_Witness ==
    \E k \in 1..Len(calls), i \in 1..Len(reqs) :
        /\ calls[k].method = "DELETE" /\ calls[k].panicked
        /\ calls[k].branch > 1 /\ calls[k].path = <<"/", "a", "/", ":", "i">>
        /\ reqs[i].path = <<"/", "a", "/", "4">> /\ reqs[i].status = 404

----------------------------------------------------------------------------
(* Properties of the two registries (SpecRoute) *)

\* the step leaves route group g as it was: the handlers, and the middleware
\* lists as dispatch would read them
GroupUnchanged(g) ==
    /\ methods'[g] = methods[g]
    /\ Contents(arrays', methods'[g].GET.steps) = Contents(arrays, methods[g].GET.steps)
    /\ Contents(arrays', methods'[g].POST.steps) = Contents(arrays, methods[g].POST.steps)

\* C16: the static map and the dynamic list are independent. A dynamic
\* registration whose full path equals a static key leaves that key's group
\* (handlers and middleware, both methods) as it was, and a static
\* registration leaves the group of every dynamic entry registered for the
\* same string as it was.
C16_RegistriesIndependent ==
    [][ Len(calls') = Len(calls) + 1 =>
          LET c == calls'[Len(calls')] IN
          ~c.panicked =>
            /\ (c.dynamic /\ c.path \in DOMAIN streams) =>
                  /\ streams'[c.path] = streams[c.path]
                  /\ GroupUnchanged(streams[c.path])
            /\ ~c.dynamic =>
                  \A d \in DynamicCalls :
                      calls[d].path = c.path => GroupUnchanged(calls[d].mid)
      ]_vars

----------------------------------------------------------------------------
(* Properties of the request context (SpecContext) *)

\* the value was given to Set in dispatch i
SetIn(value, i) == value # NilValue /\ value[1] = i

\* C17: every dispatch has a context of its own whose local store starts
\* empty: the store of dispatch i holds, and Get in dispatch i returns,
\* nothing but values given to Set in dispatch i, also when dispatches of
\* the same route run interleaved.
C17_ContextPerDispatch ==
    \A i \in 1..Len(reqs) :
        LET q == reqs[i] IN
        /\ q.log = <<>> => DOMAIN q.local = {}
        /\ \A key \in DOMAIN q.local : SetIn(q.local[key], i)
        /\ \A n \in 1..Len(q.log) :
              q.log[n].op = "get" =>
                  q.log[n].value = NilValue \/ SetIn(q.log[n].value, i)

\* two dispatches of one route in flight: Get(key) in one of them returned
\* nil while the store of the other held a value under key
C17_Witness ==
    \E i, j \in 1..Len(reqs) :
        /\ i # j /\ reqs[i].sink = reqs[j].sink
        /\ InFlight(i) /\ InFlight(j)
        /\ \E n \in 1..Len(reqs[j].log) :
              LET e == reqs[j].log[n] IN
              /\ e.op = "get" /\ e.value = NilValue
              /\ \E v \in e.others : SetIn(v, i)

\* the value Get(key) is to return after the calls log[1..n]: that of the
\* last Set(key, v), nil when there is none or a Delete(key) came after it
RECURSIVE Latest(_, _, _)
Latest(log, n, key) ==
    IF n = 0 THEN NilValue
    ELSE IF log[n].key = key /\ log[n].op = "set" THEN log[n].value
    ELSE IF log[n].key = key /\ log[n].op = "delete" THEN NilValue
    ELSE Latest(log, n - 1, key)

\* C18: within one dispatch the Steps and the handler work on one context:
\* Get(k) returns the value of the latest Set(k, v) any of them made earlier
\* in the dispatch, and nil when k was never set or a Delete(k) came after
\* that Set.
C18_SharedContext ==
    \A i \in 1..Len(reqs) :
        LET q == reqs[i] IN
        /\ \A n \in 1..Len(q.log) :
              q.log[n].op = "get" => q.log[n].value = Latest(q.log, n - 1, q.log[n].key)
        /\ \A key \in CtxKeys : LocalGet(q.local, key) = Latest(q.log, Len(q.log), key)

\* a Step sets k before it calls next, the handler gets that value, and the
\* Step deletes k after next has returned
C18_Witness ==
    \E i \in 1..Len(reqs) :
        LET q == reqs[i] IN
        /\ Len(q.chain) = 2 /\ Len(q.log) = 3
        /\ q.log[1].op = "set" /\ q.log[1].by = 1
        /\ q.log[2].op = "get" /\ q.log[2].by = 2
        /\ q.log[2].key = q.log[1].key /\ q.log[2].value = q.log[1].value
        /\ q.log[3].op = "delete" /\ q.log[3].by = 1 /\ q.dir = "out"
        /\ q.log[3].key = q.log[1].key /\ q.log[1].key \notin DOMAIN q.local

----------------------------------------------------------------------------
(* Properties of the full path and of the precedence (SpecRoute) *)

RECURSIVE PrefixesOf(_)
\* the prefixes given to the Forks from the root down to branch b,
\* concatenated, a prefix "/" counting as the empty string
PrefixesOf(b) ==
    IF b = 1 THEN <<>>
    ELSE PrefixesOf(forks[b].parent)
           \o (IF forks[b].prefix = <<"/">> THEN <<>> ELSE forks[b].prefix)

\* the full path of the route a Stream call registers
FullPath(c) == PrefixesOf(c.branch) \o c.sub

\* C19: the full path of a registered route is the concatenation of the
\* prefixes of the Forks from the root down to its branch, "/" counting as
\* the empty string, followed by the Stream subpath: the route is stored
\* under that path (as a static key, or compiled into the pattern of its
\* dynamic entry), a request on that path of a static route resolves to its
\* group, and a request resolves only if its path is, or matches, the full
\* path of a registered route.
C19_FullPath ==
    /\ \A b \in 1..Len(branches) : branches[b].path = PrefixesOf(b)
    /\ \A k \in StaticCalls :
          /\ FullPath(calls[k]) \in DOMAIN streams
          /\ streams[FullPath(calls[k])] = calls[k].mid
    /\ \A k \in DynamicCalls :
          \E j \in 1..Len(dynamicStreams) :
              /\ dynamicStreams[j].pattern = convertPathToRegex(FullPath(calls[k])).pattern
              /\ dynamicStreams[j].methods = calls[k].mid
    /\ \A i \in 1..Len(reqs) :
          /\ \A k \in StaticCalls :
                reqs[i].path = FullPath(calls[k]) =>
                    reqs[i].found /\ reqs[i].mid = calls[k].mid
          /\ reqs[i].found =>
                \E k \in OkCalls :
                    IF calls[k].dynamic
                    THEN Match(convertPathToRegex(FullPath(calls[k])).pattern, reqs[i].path).ok
                    ELSE reqs[i].path = FullPath(calls[k])

\* Fork("/").Fork("/a").Stream("GET", "/p"): GET /a/p runs the handler
C19_Witness ==
    \E i \in 1..Len(reqs), k \in StaticCalls :
        LET b == calls[k].branch IN
        /\ b > 1 /\ forks[b].prefix = <<"/", "a">>
        /\ forks[b].parent > 1 /\ forks[forks[b].parent].prefix = <<"/">>
        /\ forks[forks[b].parent].parent = 1
        /\ calls[k].sub = <<"/", "p">>
        /\ reqs[i].path = <<"/", "a", "/", "p">>
        /\ reqs[i].status = 200 /\ reqs[i].sink = calls[k].sink

\* with the same registration, GET //a/p finds no route
C19_WitnessDoubleSlash ==
    \E i \in 1..Len(reqs), k \in StaticCalls :
        LET b == calls[k].branch IN
        /\ b > 1 /\ forks[b].prefix = <<"/", "a">>
        /\ forks[b].parent > 1 /\ forks[forks[b].parent].prefix = <<"/">>
        /\ calls[k].sub = <<"/", "p">>
        /\ reqs[i].path = <<"/", "/", "a", "/", "p">>
        /\ reqs[i].status = 404

\* C20: static routes take precedence whatever the order of registration. A
\* request whose path equals a static key gets that key's group and no
\* parameters, even when a dynamic pattern registered earlier matches the
\* path; a request gets the group of a dynamic entry, with a parameter
\* mapping, only when no static key equals its path.
C20_StaticFirst ==
    \A i \in 1..Len(reqs) :
        LET q == reqs[i] IN
        /\ q.path \in DOMAIN streams =>
              /\ q.found /\ q.mid = streams[q.path]
              /\ q.params = NilParams
        /\ (q.found /\ q.path \notin DOMAIN streams) =>
              /\ ~q.params.isNil
              /\ \E j \in 1..Len(dynamicStreams) :
                    /\ Match(dynamicStreams[j].pattern, q.path).ok
                    /\ dynamicStreams[j].methods = q.mid

\* /:i registered, then /* , then the static /p: GET /p runs the handler of
\* /p with no parameters
C20_Witness ==
    \E i \in 1..Len(reqs), k \in StaticCalls, d, e \in DynamicCalls :
        /\ d < e /\ e < k
        /\ calls[d].path = <<"/", ":", "i">> /\ calls[e].path = <<"/", "*">>
        /\ calls[k].path = <<"/", "p">>
        /\ reqs[i].path = <<"/", "p">>
        /\ {d, e} \subseteq MatchingCalls(reqs[i].path)
        /\ reqs[i].status = 200 /\ reqs[i].sink = calls[k].sink
        /\ reqs[i].params = NilParams

\* the subpath given to the Stream call holds ":" or "*"
SubpathDynamic(c) == Contains(c.sub, ":") \/ Contains(c.sub, "*")

\* C21: a Stream call makes a dynamic entry if and only if its subpath
\* argument holds ":" or "*", whatever the prefix of the branch: a call with
\* any other subpath stores its group under the literal full path in the
\* static map and adds nothing to the dynamic list, so a request resolves
\* only if its path equals the full path of such a call or matches the
\* pattern of a call whose subpath holds ":" or "*".
C21_ClassifiedBySubpath ==
    /\ Len(dynamicStreams) = Cardinality({ k \in OkCalls : SubpathDynamic(calls[k]) })
    /\ DOMAIN streams = { FullPath(calls[k]) : k \in { l \in OkCalls : ~SubpathDynamic(calls[l]) } }
    /\ \A k \in OkCalls :
          IF SubpathDynamic(calls[k])
          THEN \E j \in 1..Len(dynamicStreams) :
                  /\ dynamicStreams[j].pattern = convertPathToRegex(FullPath(calls[k])).pattern
                  /\ dynamicStreams[j].methods = calls[k].mid
          ELSE streams[FullPath(calls[k])] = calls[k].mid
    /\ \A i \in 1..Len(reqs) :
          reqs[i].found <=>
            \E k \in OkCalls :
                IF SubpathDynamic(calls[k])
                THEN Match(convertPathToRegex(FullPath(calls[k])).pattern, reqs[i].path).ok
                ELSE reqs[i].path = FullPath(calls[k])

\* Fork("/:i").Stream("GET", "/p") is the only route: the static map holds
\* /:i/p, the dynamic list is empty and GET /4 finds no route
C21_Witness ==
    \E i \in 1..Len(reqs), k \in OkCalls :
        /\ OkCalls = {k} /\ dynamicStreams = <<>>
        /\ forks[calls[k].branch].prefix = <<"/", ":", "i">>
        /\ calls[k].sub = <<"/", "p">>
        /\ <<"/", ":", "i", "/", "p">> \in DOMAIN streams
        /\ reqs[i].path = <<"/", "4">> /\ reqs[i].status = 404

\* Fork("/:i").Stream("GET", ""): GET /:i, the literal string, runs the handler
C21_WitnessLiteral ==
    \E i \in 1..Len(reqs), k \in OkCalls :
        /\ OkCalls = {k} /\ dynamicStreams = <<>>
        /\ forks[calls[k].branch].prefix = <<"/", ":", "i">>
        /\ calls[k].sub = <<>>
        /\ reqs[i].path = <<"/", ":", "i">>
        /\ reqs[i].status = 200 /\ reqs[i].sink = calls[k].sink

----------------------------------------------------------------------------
(* Properties of repeated registration (SpecOverwrite) *)

\* the route entry of call k is dispatched as call k registered it
AsRegistered(k) ==
    /\ Entry(calls[k]).sink = calls[k].sink
    /\ DispatchedSteps(calls[k]) = calls[k].got

\* C22: when a static full path is registered twice for one method, the
\* method is dispatched to the handler of the second registration with the
\* middleware list of the second registration, and the entry of the other
\* method on that path, if registered, stays as it was registered.
C22_StaticOverwrite ==
    \A k1 \in StaticCalls, k2 \in StaticCalls :
        ( /\ k1 < k2 /\ Current(k2)
          /\ calls[k1].path = calls[k2].path /\ calls[k1].method = calls[k2].method )
        => /\ AsRegistered(k2)
           /\ \A o \in StaticCalls :
                 ( /\ calls[o].path = calls[k2].path
                   /\ calls[o].method # calls[k2].method /\ Current(o) )
                 => AsRegistered(o)

\* the same for the routes registered on the Flow itself, whose Branch has no
\* Steps (every append allocates)
C22_StaticOverwriteOnFlow ==
    \A k1 \in StaticCalls, k2 \in StaticCalls :
        ( /\ k1 < k2 /\ Current(k2) /\ calls[k2].branch = 1
          /\ calls[k1].path = calls[k2].path /\ calls[k1].method = calls[k2].method )
        => /\ AsRegistered(k2)
           /\ \A o \in StaticCalls :
                 ( /\ calls[o].path = calls[k2].path /\ calls[o].branch = 1
                   /\ calls[o].method # calls[k2].method /\ Current(o) )
                 => AsRegistered(o)

----------------------------------------------------------------------------
(* Properties of concurrent dispatch (SpecServe) *)

\* what a dispatch of (method, path) resolves to and runs on the router as
\* it is, whatever other dispatches there are
Resolved(q) ==
    LET d == Dispatch(q.method, q.path) IN
    /\ q.status = d.status /\ q.found = d.found /\ q.mid = d.mid
    /\ q.params = d.params /\ q.steps = d.steps /\ q.sink = d.sink
    /\ q.chain = d.chain

\* the events of the dispatch so far are those of its own chain
RunsOwnChain(q) ==
    IF q.short = 0
    THEN IsPrefix(q.trace, Events(q.steps, Len(q.steps), TRUE, q.sink, Len(q.steps)))
    ELSE IsPrefix(q.trace, Events(q.steps, q.short, FALSE, q.sink, q.short - 1))

\* C23: a step of a dispatch (the ServeHTTP call, a Step or the handler
\* running) changes neither the static map, nor the dynamic list, nor a
\* route group, nor a middleware list, nor a branch; and every dispatch,
\* however the dispatches interleave, has resolved to and runs the chain
\* its method and path give on the router alone.
C23_DispatchReadOnly ==
    [][ reqs' # reqs =>
          /\ streams' = streams /\ dynamicStreams' = dynamicStreams
          /\ methods' = methods /\ arrays' = arrays /\ branches' = branches
          /\ \A i \in 1..Len(reqs') : Resolved(reqs'[i]) /\ RunsOwnChain(reqs'[i])
      ]_vars

\* two dispatches of one route with a Step, interleaved: the handler of the
\* second has run while the first is still inside its Step
C23_Witness ==
    \E i, j \in 1..Len(reqs) :
        /\ i < j /\ reqs[i].sink = reqs[j].sink /\ reqs[i].status = 200
        /\ Len(reqs[i].steps) > 0
        /\ reqs[i].dir = "in" /\ reqs[i].depth = 1
        /\ Done(j) /\ reqs[j].short = 0 /\ Len(reqs[j].trace) > 1

----------------------------------------------------------------------------
(* Properties of a failed registration on a tree of branches (SpecBranch) *)

\* C24: a Stream call that panics on an unsupported method leaves the
\* router as it was: the static map, the dynamic list and every route group
\* are unchanged, and every registered route is dispatched to the handler
\* and with the middleware list it had before the call.
C24_FailedStreamFrame ==
    [][ ( /\ Len(calls') = Len(calls) + 1
          /\ calls'[Len(calls')].panicked )
        => /\ streams' = streams /\ dynamicStreams' = dynamicStreams
           /\ methods' = methods
           /\ \A k \in OkCalls :
                 Contents(arrays', Entry(calls[k]).steps)
                     = Contents(arrays, Entry(calls[k]).steps)
      ]_vars

\* the part that holds: the static map, the dynamic list and the entries of
\* the route groups are unchanged
C24_FailedStreamTable ==
    [][ ( /\ Len(calls') = Len(calls) + 1
          /\ calls'[Len(calls')].panicked )
        => /\ streams' = streams /\ dynamicStreams' = dynamicStreams
           /\ methods' = methods
      ]_vars

----------------------------------------------------------------------------
(* Properties of termination (SpecLive) *)

\* the Steps of dispatch q that were entered and called next
Called(q) == IF q.short = 0 THEN Len(q.steps) ELSE q.short - 1

\* every Step that called next has returned, the innermost first and the
\* outermost last: the trace ends with their post events in that order
AllReturned(q) ==
    LET e == Called(q)
        n == Len(q.trace)
    IN  /\ n >= 2 * e
        /\ \A j \in 1..e :
              /\ q.trace[j] = <<"pre", q.steps[j]>>
              /\ q.trace[n + 1 - j] = <<"post", q.steps[j]>>

\* C25: with Steps and a handler that terminate and call next at most once,
\* every dispatch eventually finishes, and a dispatch that has finished is
\* one in which every Step that was entered has returned, the outermost last.
C25_ChainTerminates ==
    /\ \A i \in 1..MaxReqs :
          (Len(reqs) >= i) ~> (Len(reqs) >= i /\ Done(i))
    /\ [](\A i \in 1..Len(reqs) :
            (reqs[i].status = 200 /\ Done(i)) => AllReturned(reqs[i]))

\* a dispatch through two Steps that both called next has finished: the
\* last event is the return of the first Step
C25_Witness ==
    \E i \in 1..Len(reqs) :
        LET q == reqs[i] IN
        /\ q.status = 200 /\ Done(i) /\ q.short = 0 /\ Len(q.steps) = 2
        /\ q.trace[Len(q.trace)] = <<"post", q.steps[1]>>
        /\ q.trace[Len(q.trace) - 1] = <<"post", q.steps[2]>>

----------------------------------------------------------------------------
(* Properties of the client's Response (SpecResponse) *)

\* what a call returns for the given bytes of the body
ValueOf(call, bytes) ==
    CASE call = "Json" -> Unmarshal(bytes.bytes).data
      [] call = "String" -> bytes.bytes
      [] call = "Bytes" -> bytes

\* C26: over any sequence of Json, String and Bytes calls on one Response
\* whose first read succeeds, the received body is read and closed exactly
\* once, and every call is given the bytes the first call was given and
\* returns their value.
C26_BodyCached ==
    (returned /= <<>> /\ ~returned[1].readErr) =>
        /\ wire.reads = 1
        /\ wire.closes = 1
        /\ returned[1].bytes = NonNil(wire.data)
        /\ \A k \in 1..Len(returned) :
              /\ ~returned[k].readErr
              /\ returned[k].bytes = returned[1].bytes
              /\ returned[k].value = ValueOf(returned[k].call, returned[1].bytes)

\* String, Json and Bytes were called in this order on a Response with the
\* body "{}": all three succeeded
C26_Witness ==
    /\ Len(returned) = 3
    /\ wire.data = <<"{", "}">>
    /\ [k \in 1..3 |-> returned[k].call] = <<"String", "Json", "Bytes">>
    /\ \A k \in 1..3 : ~returned[k].err
    /\ returned[2].value = "map[]"

\* three calls on a Response with an empty body: the empty body is cached
\* as well (Json fails on it, for want of a JSON text)
C26_WitnessEmpty ==
    /\ Len(returned) = 3
    /\ wire.data = <<>>
    /\ ~returned[1].readErr
    /\ \E k \in 1..3 : returned[k].call = "Json" /\ returned[k].err

====
